---- MODULE Spec2Model ----
(***************************************************************************)
(* Model of coursebuilder/models/progress.py: UnitLessonProgressTracker.   *)
(*                                                                         *)
(* A key is modelled as the sequence of its dot-separated segments, so     *)
(* '.'.join(...) is sequence concatenation and s.split('.') is the         *)
(* sequence itself.  A Python optional (None or a value) is modelled as a  *)
(* sequence of length 0 or 1, except for the int-or-None result of         *)
(* dict.get, where None is -1 (stored integers are never negative).        *)
(***************************************************************************)
EXTENDS Integers, Sequences, FiniteSets, TLC

VARIABLES
    store,      \* datastore: student -> persisted StudentPropertyEntity
    now,        \* datetime.datetime.now(), counted in record operations
    last,       \* the operation executed last and its arguments
    repeat,     \* TRUE iff the operation before `last` was the same call
    pre,        \* the datastore before the last operation
    puts,       \* number of put() calls issued by the last operation
    ret,        \* value returned by the last operation
    calls,      \* number of put_assessment_completed calls so far
    forced,     \* activities put_activity_completed has been executed for
    written,    \* the entities put() by the last operation, in order
    raised,     \* TRUE iff the last operation ended in an AssertionError
    reqs,       \* overlapping requests: the _put_event calls begun, in order
    phase,      \* what the last step was: a whole call, a load or a commit
    serial,     \* the datastore had every call begun so far run on its own
    raced,      \* students with two _put_event calls in flight at once
    committed   \* per student, the request that committed last (0: none)

vars == <<store, now, last, repeat, pre, puts, ret, calls, forced, written,
          raised, reqs, phase, serial, raced, committed>>

\* ------------------------------------------------------------------ bounds
MaxOps == 3
MaxReqs == 3

\* --------------------------------------------------------------- constants
NOT_STARTED_STATE == 0
IN_PROGRESS_STATE == 1
COMPLETED_STATE == 2

PROPERTY_KEY == "linear-course-progress"

EVENT_CODE_MAPPING ==
    [unit |-> "u", lesson |-> "l", video |-> "v",
     activity |-> "a", block |-> "b", assessment |-> "s"]

None == -1

\* str(n) / '%s' % n for the small non-negative integers used as ids
Digits == <<"0", "1", "2", "3", "4", "5", "6", "7", "8", "9">>
str(n) == Digits[n + 1]

\* ------------------------------------------------- course (collaborators)
Students == {"alice"}

get_units ==
    << [unit_id |-> "1", type |-> "U"],
       [unit_id |-> "2", type |-> "U"],
       [unit_id |-> "Mid", type |-> "A"] >>

get_lessons(unit_id) ==
    CASE unit_id = "1" -> << [id |-> 1, activity |-> TRUE],
                             [id |-> 2, activity |-> FALSE],
                             [id |-> 3, activity |-> TRUE] >>
      [] unit_id = "2" -> << [id |-> 1, activity |-> TRUE] >>
      [] OTHER -> << >>

\* activity['activity']: the blocks; "dict" marks an interactive block.
\* Lesson 2 of unit 1 has an activity file although its `activity` attribute
\* is not set.
get_activity_as_python(unit_id, lesson_id) ==
    CASE unit_id = "1" /\ lesson_id = "1" -> << "dict", "str", "dict" >>
      [] unit_id = "1" /\ lesson_id = "2" -> << "dict", "dict" >>
      [] unit_id = "1" /\ lesson_id = "3" -> << "str" >>
      [] unit_id = "2" /\ lesson_id = "1" -> << "dict" >>
      [] OTHER -> << >>

isinstance_dict(block) == block = "dict"

SeqToSet(s) == {s[i] : i \in 1..Len(s)}

UnitIds == {u.unit_id : u \in {x \in SeqToSet(get_units) : x.type = "U"}}
AssessmentIds == {u.unit_id : u \in {x \in SeqToSet(get_units) : x.type = "A"}}
LessonIds(unit_id) == {str(l.id) : l \in SeqToSet(get_lessons(unit_id))}
ActivityLessonIds(unit_id) ==
    {str(l.id) : l \in {x \in SeqToSet(get_lessons(unit_id)) : x.activity}}
BlockIds(unit_id, lesson_id) ==
    0 .. (Len(get_activity_as_python(unit_id, lesson_id)) - 1)
InteractiveBlockIds(unit_id, lesson_id) ==
    {b \in BlockIds(unit_id, lesson_id) :
        isinstance_dict(get_activity_as_python(unit_id, lesson_id)[b + 1])}

\* ------------------------------------------------------------- key codec
_get_unit_key(unit_id) == <<EVENT_CODE_MAPPING.unit, unit_id>>

_get_lesson_key(unit_id, lesson_id) ==
    <<EVENT_CODE_MAPPING.unit, unit_id, EVENT_CODE_MAPPING.lesson, lesson_id>>

_get_video_key(unit_id, lesson_id, video_id) ==
    <<EVENT_CODE_MAPPING.unit, unit_id, EVENT_CODE_MAPPING.lesson, lesson_id,
      EVENT_CODE_MAPPING.video, str(video_id)>>

_get_activity_key(unit_id, lesson_id, activity_id) ==
    <<EVENT_CODE_MAPPING.unit, unit_id, EVENT_CODE_MAPPING.lesson, lesson_id,
      EVENT_CODE_MAPPING.activity, str(activity_id)>>

_get_block_key(unit_id, lesson_id, activity_id, block_id) ==
    <<EVENT_CODE_MAPPING.unit, unit_id, EVENT_CODE_MAPPING.lesson, lesson_id,
      EVENT_CODE_MAPPING.activity, str(activity_id),
      EVENT_CODE_MAPPING.block, str(block_id)>>

_get_assessment_key(assessment_id) ==
    <<EVENT_CODE_MAPPING.assessment, assessment_id>>

\* variant of generate_new_id that drops one segment instead of two
generate_new_id_one_segment(s) == SubSeq(s, 1, Len(s) - 1)

\* lambda s: '.'.join(s.split('.')[:-2])
generate_new_id(s) == SubSeq(s, 1, Len(s) - 2)

\* ------------------------------------------------------------ transforms
\* The JSON text of a flat dict is modelled as its set of (key, value) items.
dumps(d) == {<<k, d[k]>> : k \in DOMAIN d}
loads(s) == [k \in {p[1] : p \in s} |-> (CHOOSE p \in s : p[1] = k)[2]]

EmptyDict == [k \in {} |-> 0]

\* try: transforms.loads(value) except (AttributeError, TypeError): {}
loads_or_empty(value) == IF value = <<>> THEN EmptyDict ELSE loads(value[1])

\* ------------------------------------------------- record value accessors
_get_entity_value(progress, event_key) ==
    IF progress.value = <<>>
    THEN None
    ELSE LET d == loads(progress.value[1])
         IN  IF event_key \in DOMAIN d THEN d[event_key] ELSE None

_set_entity_value(student_property, key, value) ==
    LET progress_dict == loads_or_empty(student_property.value)
        new_dict == [k \in DOMAIN progress_dict \cup {key} |->
                        IF k = key THEN value ELSE progress_dict[k]]
    IN  [student_property EXCEPT !.value = <<dumps(new_dict)>>]

\* variant of _inc that stores the increment instead of adding it
_inc_assign(student_property, key) ==
    LET progress_dict == loads_or_empty(student_property.value)
        new_dict == [k \in DOMAIN progress_dict \cup {key} |->
                        IF k = key THEN 1 ELSE progress_dict[k]]
    IN  [student_property EXCEPT !.value = <<dumps(new_dict)>>]

\* variant of _inc that starts an absent counter at 1
_inc_from_one(student_property, key) ==
    LET progress_dict == loads_or_empty(student_property.value)
        new_dict == [k \in DOMAIN progress_dict \cup {key} |->
                        IF k = key
                        THEN (IF key \in DOMAIN progress_dict
                              THEN progress_dict[key] ELSE 1) + 1
                        ELSE progress_dict[k]]
    IN  [student_property EXCEPT !.value = <<dumps(new_dict)>>]

_inc(student_property, key) ==
    LET progress_dict == loads_or_empty(student_property.value)
        new_dict == [k \in DOMAIN progress_dict \cup {key} |->
                        IF k = key
                        THEN (IF key \in DOMAIN progress_dict
                              THEN progress_dict[key] ELSE 0) + 1
                        ELSE progress_dict[k]]
    IN  [student_property EXCEPT !.value = <<dumps(new_dict)>>]

_get_unit_status(progress, unit_id) ==
    _get_entity_value(progress, _get_unit_key(unit_id))

_get_lesson_status(progress, unit_id, lesson_id) ==
    _get_entity_value(progress, _get_lesson_key(unit_id, lesson_id))

_get_activity_status(progress, unit_id, lesson_id) ==
    _get_entity_value(progress, _get_activity_key(unit_id, lesson_id, 0))

is_video_completed(progress, unit_id, lesson_id) ==
    LET value == _get_entity_value(
                     progress, _get_video_key(unit_id, lesson_id, 0))
    IN  value # None /\ value > 0

\* variant of is_block_completed with the threshold off by one
is_block_completed_off_by_one(progress, unit_id, lesson_id, block_id) ==
    LET value == _get_entity_value(
                     progress, _get_block_key(unit_id, lesson_id, 0, block_id))
    IN  value # None /\ value > 1

is_block_completed(progress, unit_id, lesson_id, block_id) ==
    LET value == _get_entity_value(
                     progress, _get_block_key(unit_id, lesson_id, 0, block_id))
    IN  value # None /\ value > 0

is_assessment_completed(progress, assessment_type) ==
    LET value == _get_entity_value(
                     progress, _get_assessment_key(assessment_type))
    IN  value # None /\ value > 0

\* ------------------------------------------------------------- updaters
\* variant of _update_unit that does not skip the lessons without activity
_update_unit_no_skip(progress, event_key) ==
    LET unit_id == event_key[2]
    IN  IF _get_entity_value(progress, event_key) = COMPLETED_STATE
        THEN progress
        ELSE LET p1 == _set_entity_value(progress, event_key,
                                         IN_PROGRESS_STATE)
                 lessons == get_lessons(unit_id)
             IN  IF \E i \in 1..Len(lessons) :
                        _get_lesson_status(p1, unit_id, str(lessons[i].id))
                            # COMPLETED_STATE
                 THEN p1
                 ELSE _set_entity_value(p1, event_key, COMPLETED_STATE)

_update_unit(progress, event_key) ==
    LET unit_id == event_key[2]
    IN  IF _get_entity_value(progress, event_key) = COMPLETED_STATE
        THEN progress
        ELSE LET p1 == _set_entity_value(progress, event_key,
                                         IN_PROGRESS_STATE)
                 lessons == get_lessons(unit_id)
             IN  IF \E i \in 1..Len(lessons) :
                        /\ lessons[i].activity
                        /\ _get_lesson_status(p1, unit_id, str(lessons[i].id))
                               # COMPLETED_STATE
                 THEN p1
                 ELSE _set_entity_value(p1, event_key, COMPLETED_STATE)

\* variant of _update_lesson that does not look at the activity
_update_lesson_unchecked(progress, event_key) ==
    IF _get_entity_value(progress, event_key) = COMPLETED_STATE
    THEN progress
    ELSE _set_entity_value(progress, event_key, COMPLETED_STATE)

\* variant of _update_lesson that returns as soon as the lesson has any value
_update_lesson_once(progress, event_key) ==
    LET unit_id == event_key[2]
        lesson_id == event_key[4]
    IN  IF _get_entity_value(progress, event_key) # None
        THEN progress
        ELSE LET p1 == _set_entity_value(progress, event_key,
                                         IN_PROGRESS_STATE)
                 lessons == get_lessons(unit_id)
             IN  IF \E i \in 1..Len(lessons) :
                        /\ str(lessons[i].id) = lesson_id
                        /\ lessons[i].activity
                        /\ _get_activity_status(p1, unit_id, lesson_id)
                               # COMPLETED_STATE
                 THEN p1
                 ELSE _set_entity_value(p1, event_key, COMPLETED_STATE)

\* variant of _update_lesson that tests the activity of every lesson with
\* the target id, whether the lesson has an activity or not
_update_lesson_any_match(progress, event_key) ==
    LET unit_id == event_key[2]
        lesson_id == event_key[4]
    IN  IF _get_entity_value(progress, event_key) = COMPLETED_STATE
        THEN progress
        ELSE LET p1 == _set_entity_value(progress, event_key,
                                         IN_PROGRESS_STATE)
                 lessons == get_lessons(unit_id)
             IN  IF \E i \in 1..Len(lessons) :
                        /\ str(lessons[i].id) = lesson_id
                        /\ _get_activity_status(p1, unit_id, lesson_id)
                               # COMPLETED_STATE
                 THEN p1
                 ELSE _set_entity_value(p1, event_key, COMPLETED_STATE)

_update_lesson(progress, event_key) ==
    LET unit_id == event_key[2]
        lesson_id == event_key[4]
    IN  IF _get_entity_value(progress, event_key) = COMPLETED_STATE
        THEN progress
        ELSE LET p1 == _set_entity_value(progress, event_key,
                                         IN_PROGRESS_STATE)
                 lessons == get_lessons(unit_id)
             IN  IF \E i \in 1..Len(lessons) :
                        /\ str(lessons[i].id) = lesson_id
                        /\ lessons[i].activity
                        /\ _get_activity_status(p1, unit_id, lesson_id)
                               # COMPLETED_STATE
                 THEN p1
                 ELSE _set_entity_value(p1, event_key, COMPLETED_STATE)

\* variant of _update_activity without the return on an already COMPLETED
\* activity
_update_activity_no_return(progress, event_key) ==
    LET unit_id == event_key[2]
        lesson_id == event_key[4]
        p1 == _set_entity_value(progress, event_key, IN_PROGRESS_STATE)
        activity == get_activity_as_python(unit_id, lesson_id)
    IN  IF \E block_id \in 0..(Len(activity) - 1) :
               /\ isinstance_dict(activity[block_id + 1])
               /\ ~is_block_completed(p1, unit_id, lesson_id, block_id)
        THEN p1
        ELSE _set_entity_value(p1, event_key, COMPLETED_STATE)

\* variant of _update_activity that requires every block, interactive or not
_update_activity_all_blocks(progress, event_key) ==
    LET unit_id == event_key[2]
        lesson_id == event_key[4]
    IN  IF _get_entity_value(progress, event_key) = COMPLETED_STATE
        THEN progress
        ELSE LET p1 == _set_entity_value(progress, event_key,
                                         IN_PROGRESS_STATE)
                 activity == get_activity_as_python(unit_id, lesson_id)
             IN  IF \E block_id \in 0..(Len(activity) - 1) :
                        ~is_block_completed(p1, unit_id, lesson_id, block_id)
                 THEN p1
                 ELSE _set_entity_value(p1, event_key, COMPLETED_STATE)

_update_activity(progress, event_key) ==
    LET unit_id == event_key[2]
        lesson_id == event_key[4]
    IN  IF _get_entity_value(progress, event_key) = COMPLETED_STATE
        THEN progress
        ELSE LET p1 == _set_entity_value(progress, event_key,
                                         IN_PROGRESS_STATE)
                 activity == get_activity_as_python(unit_id, lesson_id)
             IN  IF \E block_id \in 0..(Len(activity) - 1) :
                        /\ isinstance_dict(activity[block_id + 1])
                        /\ ~is_block_completed(p1, unit_id, lesson_id,
                                               block_id)
                 THEN p1
                 ELSE _set_entity_value(p1, event_key, COMPLETED_STATE)

UPDATER_MAPPING == {"activity", "lesson", "unit"}

\* variant of the dispatch that marks the derived entity as completed
updater_force(event_entity, progress, event_key) ==
    _set_entity_value(progress, event_key, COMPLETED_STATE)

updater(event_entity, progress, event_key) ==
    CASE event_entity = "activity" -> _update_activity(progress, event_key)
      [] event_entity = "lesson" -> _update_lesson(progress, event_key)
      [] event_entity = "unit" -> _update_unit(progress, event_key)

\* entity -> sequence of derived entities (each with generate_new_id)
\* variant of DERIVED_EVENTS in which a video also updates its lesson
DERIVED_EVENTS_video(event_entity) ==
    CASE event_entity = "block" -> <<"activity">>
      [] event_entity = "activity" -> <<"lesson">>
      [] event_entity = "lesson" -> <<"unit">>
      [] event_entity = "video" -> <<"lesson">>
      [] OTHER -> << >>

\* variant of DERIVED_EVENTS without the lesson -> unit dependency
DERIVED_EVENTS_no_unit(event_entity) ==
    CASE event_entity = "block" -> <<"activity">>
      [] event_entity = "activity" -> <<"lesson">>
      [] OTHER -> << >>

DERIVED_EVENTS(event_entity) ==
    CASE event_entity = "block" -> <<"activity">>
      [] event_entity = "activity" -> <<"lesson">>
      [] event_entity = "lesson" -> <<"unit">>
      [] OTHER -> << >>

\* variant of _update_event that recomputes the ancestors top-down: the unit
\* first, the parent of the event last
_update_event_top_down(progress, event_entity, event_key, direct_update) ==
    LET p1 == IF direct_update \/ event_entity \notin UPDATER_MAPPING
              THEN IF event_entity \in UPDATER_MAPPING
                   THEN _set_entity_value(progress, event_key,
                                          COMPLETED_STATE)
                   ELSE _inc(progress, event_key)
              ELSE updater(event_entity, progress, event_key)
        unit_key == SubSeq(event_key, 1, 2)
        lesson_key == SubSeq(event_key, 1, 4)
        activity_key == SubSeq(event_key, 1, 6)
    IN  CASE event_entity = "block" ->
                 _update_activity(
                     _update_lesson(_update_unit(p1, unit_key), lesson_key),
                     activity_key)
          [] event_entity = "activity" ->
                 _update_lesson(_update_unit(p1, unit_key), lesson_key)
          [] event_entity = "lesson" -> _update_unit(p1, unit_key)
          [] OTHER -> p1

RECURSIVE _update_event(_, _, _, _)
_update_event(progress, event_entity, event_key, direct_update) ==
    LET p1 == IF direct_update \/ event_entity \notin UPDATER_MAPPING
              THEN IF event_entity \in UPDATER_MAPPING
                   THEN _set_entity_value(progress, event_key,
                                          COMPLETED_STATE)
                   ELSE _inc(progress, event_key)
              ELSE updater(event_entity, progress, event_key)
        derived == DERIVED_EVENTS(event_entity)
    IN  IF Len(derived) = 0
        THEN p1
        ELSE _update_event(p1, derived[1], generate_new_id(event_key), FALSE)

\* assert len(split_event_key) == n at the head of the three updaters
assert_len(event_entity, event_key) ==
    Len(event_key) = CASE event_entity = "activity" -> 6
                       [] event_entity = "lesson" -> 4
                       [] event_entity = "unit" -> 2

\* the calls of _update_event one event makes, in order
RECURSIVE update_steps(_, _, _)
update_steps(event_entity, event_key, direct_update) ==
    LET derived == DERIVED_EVENTS(event_entity)
    IN  <<[event_entity |-> event_entity, event_key |-> event_key,
           direct_update |-> direct_update]>>
        \o (IF Len(derived) = 0
            THEN << >>
            ELSE update_steps(derived[1], generate_new_id(event_key), FALSE))

\* the call of _update_event dispatches to an updater (line 284)
dispatches(step) ==
    ~step.direct_update /\ step.event_entity \in UPDATER_MAPPING

\* some updater reached by the event fails its assertion
_update_event_raises(event_entity, event_key) ==
    LET steps == update_steps(event_entity, event_key, TRUE)
    IN  \E i \in 1..Len(steps) :
            /\ dispatches(steps[i])
            /\ ~assert_len(steps[i].event_entity, steps[i].event_key)

\* ------------------------------------------------------- datastore model
\* StudentPropertyEntity.create(student=..., property_name=PROPERTY_KEY):
\* value is None, updated_on is not set (0).
StudentPropertyEntity_create(student) ==
    [student |-> student, property_name |-> PROPERTY_KEY,
     value |-> <<>>, updated_on |-> 0]

\* entity.put() on datastore ds
put(ds, progress) ==
    [s \in DOMAIN ds \cup {progress.student} |->
        IF s = progress.student THEN progress ELSE ds[s]]

\* the outcome of a call that returns without touching the datastore
NoEffect(ds) == [ds |-> ds, puts |-> 0, log |-> << >>, raised |-> FALSE]

\* variant of get_or_create_progress that creates a record on every call
get_or_create_progress_always(ds, student) ==
    LET progress == StudentPropertyEntity_create(student)
    IN  [progress |-> progress, ds |-> put(ds, progress), puts |-> 1,
         log |-> <<progress>>, raised |-> FALSE]

\* variant of get_or_create_progress that does not put() the new record
get_or_create_progress_no_put(ds, student) ==
    IF student \in DOMAIN ds
    THEN [progress |-> ds[student], ds |-> ds, puts |-> 0,
          log |-> << >>, raised |-> FALSE]
    ELSE [progress |-> StudentPropertyEntity_create(student), ds |-> ds,
          puts |-> 0, log |-> << >>, raised |-> FALSE]

\* variant of get_or_create_progress whose lookup ignores the student
get_or_create_progress_shared(ds, student) ==
    IF DOMAIN ds # {}
    THEN [progress |-> ds[CHOOSE s \in DOMAIN ds : TRUE], ds |-> ds,
          puts |-> 0, log |-> << >>, raised |-> FALSE]
    ELSE LET progress == StudentPropertyEntity_create(student)
         IN  [progress |-> progress, ds |-> put(ds, progress), puts |-> 1,
              log |-> <<progress>>, raised |-> FALSE]

\* get_or_create_progress: the record returned, the datastore afterwards,
\* the number of put() calls made and the entities they wrote.
get_or_create_progress(ds, student) ==
    IF student \in DOMAIN ds
    THEN [progress |-> ds[student], ds |-> ds, puts |-> 0,
          log |-> << >>, raised |-> FALSE]
    ELSE LET progress == StudentPropertyEntity_create(student)
         IN  [progress |-> progress, ds |-> put(ds, progress), puts |-> 1,
              log |-> <<progress>>, raised |-> FALSE]

\* variant of _put_event that commits the record before updating it
_put_event_commit_first(ds, student, event_entity, event_key, t) ==
    IF event_entity \notin DOMAIN EVENT_CODE_MAPPING
    THEN NoEffect(ds)
    ELSE LET g == get_or_create_progress(ds, student)
             p2 == [g.progress EXCEPT !.updated_on = t]
         IN  [ds |-> put(g.ds, p2), puts |-> g.puts + 1,
              log |-> Append(g.log, p2), raised |-> FALSE]

\* variant of _put_event that also commits after the direct update, before
\* the derived updates
_put_event_per_level(ds, student, event_entity, event_key, t) ==
    IF event_entity \notin DOMAIN EVENT_CODE_MAPPING
    THEN NoEffect(ds)
    ELSE LET g == get_or_create_progress(ds, student)
             p0 == IF event_entity \in UPDATER_MAPPING
                   THEN _set_entity_value(g.progress, event_key,
                                          COMPLETED_STATE)
                   ELSE _inc(g.progress, event_key)
             p1 == _update_event(g.progress, event_entity, event_key, TRUE)
             p2 == [p1 EXCEPT !.updated_on = t]
         IN  [ds |-> put(put(g.ds, p0), p2), puts |-> g.puts + 2,
              log |-> g.log \o <<p0, p2>>, raised |-> FALSE]

\* variant of _put_event without the test on EVENT_CODE_MAPPING
_put_event_unguarded(ds, student, event_entity, event_key, t) ==
    LET g == get_or_create_progress(ds, student)
        p1 == _update_event(g.progress, event_entity, event_key, TRUE)
        p2 == [p1 EXCEPT !.updated_on = t]
    IN  [ds |-> put(g.ds, p2), puts |-> g.puts + 1,
         log |-> Append(g.log, p2), raised |-> FALSE]

\* _put_event: the datastore after the call, the number of put() calls made,
\* the entities they wrote and whether the call raised, at time t.
_put_event(ds, student, event_entity, event_key, t) ==
    IF event_entity \notin DOMAIN EVENT_CODE_MAPPING
    THEN NoEffect(ds)
    ELSE LET g == get_or_create_progress(ds, student)
         IN  IF _update_event_raises(event_entity, event_key)
             THEN [ds |-> g.ds, puts |-> g.puts, log |-> g.log,
                   raised |-> TRUE]
             ELSE LET p1 == _update_event(g.progress, event_entity,
                                          event_key, TRUE)
                      p2 == [p1 EXCEPT !.updated_on = t]
                  IN  [ds |-> put(g.ds, p2), puts |-> g.puts + 1,
                       log |-> Append(g.log, p2), raised |-> FALSE]

put_video_completed(ds, student, unit_id, lesson_id, t) ==
    _put_event(ds, student, "video",
               _get_video_key(unit_id, lesson_id, 0), t)

put_activity_completed(ds, student, unit_id, lesson_id, t) ==
    _put_event(ds, student, "activity",
               _get_activity_key(unit_id, lesson_id, 0), t)

put_block_completed(ds, student, unit_id, lesson_id, block_id, t) ==
    _put_event(ds, student, "block",
               _get_block_key(unit_id, lesson_id, 0, block_id), t)

put_assessment_completed(ds, student, assessment_type, t) ==
    _put_event(ds, student, "assessment",
               _get_assessment_key(assessment_type), t)

\* variant of put_activity_accessed that completes every accessed activity
put_activity_accessed_always(ds, student, unit_id, lesson_id, t) ==
    put_activity_completed(ds, student, unit_id, lesson_id, t)

\* variant of put_activity_accessed with the test on `interactive` inverted
put_activity_accessed_inverted(ds, student, unit_id, lesson_id, t) ==
    LET activity == get_activity_as_python(unit_id, lesson_id)
        interactive == \E block_id \in 0..(Len(activity) - 1) :
                           isinstance_dict(activity[block_id + 1])
    IN  IF interactive
        THEN put_activity_completed(ds, student, unit_id, lesson_id, t)
        ELSE NoEffect(ds)

put_activity_accessed(ds, student, unit_id, lesson_id, t) ==
    LET activity == get_activity_as_python(unit_id, lesson_id)
        interactive == \E block_id \in 0..(Len(activity) - 1) :
                           isinstance_dict(activity[block_id + 1])
    IN  IF ~interactive
        THEN put_activity_completed(ds, student, unit_id, lesson_id, t)
        ELSE NoEffect(ds)

\* _put_event up to the cascade (lines 256-258): the record is loaded, or
\* created and persisted, and updated in memory only
_put_event_load(ds, student, event_entity, event_key) ==
    LET g == get_or_create_progress(ds, student)
    IN  [ds |-> g.ds, puts |-> g.puts, log |-> g.log,
         loaded |-> g.progress,
         progress |-> _update_event(g.progress, event_entity, event_key,
                                    TRUE)]

\* variant of the commit that keeps, for every key, the larger of the stored
\* and the in-memory value
_put_event_commit_merge(ds, progress, t) ==
    LET old == IF progress.student \in DOMAIN ds
               THEN loads_or_empty(ds[progress.student].value)
               ELSE EmptyDict
        new == loads_or_empty(progress.value)
        merged == [k \in DOMAIN old \cup DOMAIN new |->
                      IF k \in DOMAIN old /\ k \in DOMAIN new
                      THEN (IF old[k] > new[k] THEN old[k] ELSE new[k])
                      ELSE IF k \in DOMAIN old THEN old[k] ELSE new[k]]
    IN  put(ds, [progress EXCEPT !.updated_on = t,
                                 !.value = <<dumps(merged)>>])

\* variant of the commit that never lowers a stored unit, lesson or activity
_put_event_commit_keep_state(ds, progress, t) ==
    LET old == IF progress.student \in DOMAIN ds
               THEN loads_or_empty(ds[progress.student].value)
               ELSE EmptyDict
        new == loads_or_empty(progress.value)
        kept == {k \in DOMAIN old : k[Len(k) - 1] \in {"u", "l", "a"}}
        merged == [k \in kept \cup DOMAIN new |->
                      IF k \in kept /\ k \in DOMAIN new
                      THEN (IF old[k] > new[k] THEN old[k] ELSE new[k])
                      ELSE IF k \in kept THEN old[k] ELSE new[k]]
    IN  put(ds, [progress EXCEPT !.updated_on = t,
                                 !.value = <<dumps(merged)>>])

\* the end of _put_event (lines 260-261): the in-memory record is stamped
\* and replaces the persisted one
_put_event_commit(ds, progress, t) ==
    put(ds, [progress EXCEPT !.updated_on = t])

get_unit_progress(progress) ==
    LET units == get_units
        ids == {units[i].unit_id : i \in
                   {j \in 1..Len(units) : units[j].type \in {"A", "U"}}}
        typeOf(id) == (CHOOSE u \in SeqToSet(units) : u.unit_id = id).type
    IN  [id \in ids |->
            IF typeOf(id) = "A"
            THEN is_assessment_completed(progress, id)
            ELSE LET value == _get_unit_status(progress, id)
                 IN  IF value = None THEN 0 ELSE value]

\* variant of get_lesson_progress that returns None for an absent key
get_lesson_progress_no_default(progress, unit_id) ==
    LET lessons == get_lessons(unit_id)
    IN  [id \in {lessons[i].id : i \in 1..Len(lessons)} |->
            _get_lesson_status(progress, unit_id, str(id))]

get_lesson_progress(progress, unit_id) ==
    LET lessons == get_lessons(unit_id)
    IN  [id \in {lessons[i].id : i \in 1..Len(lessons)} |->
            LET value == _get_lesson_status(progress, unit_id, str(id))
            IN  IF value = None THEN 0 ELSE value]

\* ---------------------------------------------------------------- actions
NoArg == "-"
NoId == -1
Op(op, student, unit_id, lesson_id, block_id, assessment) ==
    [op |-> op, student |-> student, unit_id |-> unit_id,
     lesson_id |-> lesson_id, block_id |-> block_id,
     assessment |-> assessment]

RecordOps == {"put_video_completed", "put_activity_completed",
              "put_block_completed", "put_assessment_completed"}

\* bookkeeping common to every operation
Step(op, r, result) ==
    /\ store' = r.ds
    /\ puts' = r.puts
    /\ written' = r.log
    /\ raised' = r.raised
    /\ ret' = result
    /\ pre' = store
    /\ repeat' = (last = op)
    /\ last' = op
    /\ UNCHANGED <<reqs, phase, serial, raced, committed>>

\* a record operation takes place at the next instant
Record(op, r) ==
    /\ now < MaxOps
    /\ now' = now + 1
    /\ Step(op, r, <<>>)

\* a query leaves the clock alone
Query(op, r, result) ==
    /\ UNCHANGED now
    /\ Step(op, r, result)

Init ==
    /\ store = [s \in {} |-> 0]
    /\ now = 0
    /\ last = Op("init", NoArg, NoArg, NoArg, NoId, NoArg)
    /\ repeat = FALSE
    /\ pre = [s \in {} |-> 0]
    /\ puts = 0
    /\ ret = <<>>
    /\ calls = [s \in Students |-> [a \in AssessmentIds |-> 0]]
    /\ forced = {}
    /\ written = << >>
    /\ raised = FALSE
    /\ reqs = << >>
    /\ phase = "call"
    /\ serial = [s \in {} |-> 0]
    /\ raced = {}
    /\ committed = [s \in {"alice", "bob"} |-> 0]

PutVideoCompleted ==
    \E student \in Students, unit_id \in UnitIds :
      \E lesson_id \in LessonIds(unit_id) :
        /\ Record(Op("put_video_completed", student, unit_id, lesson_id,
                   NoId, NoArg),
                put_video_completed(store, student, unit_id, lesson_id,
                                    now + 1))
        /\ UNCHANGED <<calls, forced>>

PutActivityCompleted ==
    \E student \in Students, unit_id \in UnitIds :
      \E lesson_id \in ActivityLessonIds(unit_id) :
        /\ Record(Op("put_activity_completed", student, unit_id, lesson_id,
                   NoId, NoArg),
                put_activity_completed(store, student, unit_id, lesson_id,
                                       now + 1))
        /\ forced' = forced \cup {<<student, unit_id, lesson_id>>}
        /\ UNCHANGED calls

PutBlockCompleted ==
    \E student \in Students, unit_id \in UnitIds :
      \E lesson_id \in ActivityLessonIds(unit_id) :
        \E block_id \in BlockIds(unit_id, lesson_id) :
          /\ Record(Op("put_block_completed", student, unit_id, lesson_id,
                     block_id, NoArg),
                  put_block_completed(store, student, unit_id, lesson_id,
                                      block_id, now + 1))
          /\ UNCHANGED <<calls, forced>>

PutAssessmentCompleted ==
    \E student \in Students, assessment_type \in AssessmentIds :
        /\ Record(Op("put_assessment_completed", student, NoArg, NoArg,
                   NoId, assessment_type),
                put_assessment_completed(store, student, assessment_type,
                                         now + 1))
        /\ calls' = [calls EXCEPT ![student][assessment_type] = @ + 1]
        /\ UNCHANGED forced

PutActivityAccessed ==
    \E student \in Students, unit_id \in UnitIds :
      \E lesson_id \in ActivityLessonIds(unit_id) :
        /\ Record(Op("put_activity_accessed", student, unit_id, lesson_id,
                   NoId, NoArg),
                put_activity_accessed(store, student, unit_id, lesson_id,
                                      now + 1))
        /\ forced' = IF InteractiveBlockIds(unit_id, lesson_id) = {}
                     THEN forced \cup {<<student, unit_id, lesson_id>>}
                     ELSE forced
        /\ UNCHANGED calls

\* _put_event with an entity name that EVENT_CODE_MAPPING does not hold
UnknownEntities == {"quiz", "Unit"}

PutEventUnknown ==
    \E student \in Students, event_entity \in UnknownEntities :
        /\ Record(Op("_put_event", student, NoArg, NoArg, NoId,
                     event_entity),
                  _put_event(store, student, event_entity,
                             <<"q", str(1)>>, now + 1))
        /\ UNCHANGED <<calls, forced>>

GetOrCreateProgress ==
    \E student \in Students :
        LET g == get_or_create_progress(store, student)
        IN  /\ Query(Op("get_or_create_progress", student, NoArg, NoArg,
                       NoId, NoArg),
                    g, <<g.progress>>)
            /\ UNCHANGED <<calls, forced>>

GetUnitProgress ==
    \E student \in Students :
        LET g == get_or_create_progress(store, student)
        IN  /\ Query(Op("get_unit_progress", student, NoArg, NoArg,
                       NoId, NoArg),
                    g, <<get_unit_progress(g.progress)>>)
            /\ UNCHANGED <<calls, forced>>

GetLessonProgress ==
    \E student \in Students, unit_id \in UnitIds :
        LET g == get_or_create_progress(store, student)
        IN  /\ Query(Op("get_lesson_progress", student, unit_id, NoArg,
                       NoId, NoArg),
                    g, <<get_lesson_progress(g.progress, unit_id)>>)
            /\ UNCHANGED <<calls, forced>>

\* is_*_completed take a loaded record, not a student: the caller holds the
\* student's persisted record.
IsVideoCompleted ==
    \E student \in DOMAIN store, unit_id \in UnitIds :
      \E lesson_id \in LessonIds(unit_id) :
        /\ Query(Op("is_video_completed", student, unit_id, lesson_id,
                   NoId, NoArg),
                NoEffect(store),
                <<is_video_completed(store[student], unit_id, lesson_id)>>)
        /\ UNCHANGED <<calls, forced>>

IsBlockCompleted ==
    \E student \in DOMAIN store, unit_id \in UnitIds :
      \E lesson_id \in ActivityLessonIds(unit_id) :
        \E block_id \in BlockIds(unit_id, lesson_id) :
          /\ Query(Op("is_block_completed", student, unit_id, lesson_id,
                     block_id, NoArg),
                  NoEffect(store),
                  <<is_block_completed(store[student], unit_id, lesson_id,
                                       block_id)>>)
          /\ UNCHANGED <<calls, forced>>

IsAssessmentCompleted ==
    \E student \in DOMAIN store, assessment_type \in AssessmentIds :
        /\ Query(Op("is_assessment_completed", student, NoArg, NoArg,
                   NoId, assessment_type),
                NoEffect(store),
                <<is_assessment_completed(store[student], assessment_type)>>)
        /\ UNCHANGED <<calls, forced>>

Next ==
    \/ PutVideoCompleted
    \/ PutActivityCompleted
    \/ PutBlockCompleted
    \/ PutAssessmentCompleted
    \/ PutActivityAccessed
    \/ PutEventUnknown
    \/ GetOrCreateProgress
    \/ GetUnitProgress
    \/ GetLessonProgress
    \/ IsVideoCompleted
    \/ IsBlockCompleted
    \/ IsAssessmentCompleted

Spec == Init /\ [][Next]_vars

\* ------------------------------------------------- overlapping requests
\* Requests run _put_event concurrently: each loads the record and runs the
\* cascade in memory in one step and commits in a later one.
RaceStudents == {"alice", "bob"}

RaceCalls ==
    {Op("put_block_completed", s, "1", "1", b, NoArg) :
        s \in RaceStudents, b \in {0, 2}}
    \cup {Op("put_video_completed", s, "1", "1", NoId, NoArg) :
             s \in RaceStudents}
    \cup {Op("put_activity_accessed", s, "1", "3", NoId, NoArg) :
             s \in RaceStudents}

\* the key a call hands to _put_event
CallKey(op) ==
    CASE op.op = "put_video_completed" ->
             _get_video_key(op.unit_id, op.lesson_id, 0)
      [] op.op = "put_block_completed" ->
             _get_block_key(op.unit_id, op.lesson_id, 0, op.block_id)
      [] OTHER -> _get_activity_key(op.unit_id, op.lesson_id, 0)

\* the entity a call hands to _put_event
CallEntity(op) ==
    CASE op.op = "put_video_completed" -> "video"
      [] op.op = "put_block_completed" -> "block"
      [] OTHER -> "activity"

InFlight(student) ==
    {i \in 1..Len(reqs) :
        reqs[i].pc = "loaded" /\ reqs[i].op.student = student}

RaceLoad ==
    \E op \in RaceCalls :
        LET r == _put_event_load(store, op.student, CallEntity(op),
                                 CallKey(op))
        IN  /\ Len(reqs) < MaxReqs
            /\ reqs' = Append(reqs, [op |-> op, pc |-> "loaded",
                                     loaded |-> r.loaded,
                                     progress |-> r.progress])
            /\ store' = r.ds
            /\ serial' = _put_event(serial, op.student, CallEntity(op),
                                    CallKey(op), 0).ds
            /\ raced' = IF InFlight(op.student) # {}
                        THEN raced \cup {op.student}
                        ELSE raced
            /\ forced' = IF op.op = "put_activity_accessed"
                         THEN forced \cup {<<op.student, op.unit_id,
                                              op.lesson_id>>}
                         ELSE forced
            /\ phase' = "load"
            /\ last' = op
            /\ pre' = store
            /\ puts' = r.puts
            /\ written' = r.log
            /\ UNCHANGED <<now, repeat, ret, calls, raised, committed>>

RaceCommit ==
    \E i \in 1..Len(reqs) :
        LET progress == [reqs[i].progress EXCEPT !.updated_on = now + 1]
        IN  /\ reqs[i].pc = "loaded"
            /\ now' = now + 1
            /\ store' = _put_event_commit(store, reqs[i].progress, now + 1)
            /\ reqs' = [reqs EXCEPT ![i].pc = "done"]
            /\ phase' = "commit"
            /\ last' = reqs[i].op
            /\ pre' = store
            /\ puts' = 1
            /\ written' = <<progress>>
            /\ committed' = [committed EXCEPT ![reqs[i].op.student] = i]
            /\ UNCHANGED <<repeat, ret, calls, forced, raised, serial, raced>>

\* a query runs between the steps of the requests
RaceQuery ==
    \E student \in RaceStudents :
        LET g == get_or_create_progress(store, student)
            op == Op("get_lesson_progress", student, "1", NoArg, NoId, NoArg)
        IN  /\ Len(reqs) < MaxReqs
            /\ reqs' = Append(reqs, [op |-> op, pc |-> "done",
                                     loaded |-> g.progress,
                                     progress |-> g.progress])
            /\ store' = g.ds
            /\ serial' = get_or_create_progress(serial, student).ds
            /\ phase' = "call"
            /\ last' = op
            /\ pre' = store
            /\ puts' = g.puts
            /\ written' = g.log
            /\ ret' = <<get_lesson_progress(g.progress, "1")>>
            /\ UNCHANGED <<now, repeat, calls, forced, raised, raced,
                           committed>>

NextRace ==
    \/ RaceLoad
    \/ RaceCommit
    \/ RaceQuery

SpecRace == Init /\ [][NextRace]_vars

\* ------------------------------------------ events for any lesson id
\* The record operations take whatever unit and lesson id the caller sends:
\* here they also arrive for a lesson without the `activity` attribute and
\* for a lesson id the unit does not have.
UnknownLessonId == "9"

LessonTargets(unit_id) == LessonIds(unit_id) \cup {UnknownLessonId}

LessonPutBlockCompleted ==
    \E student \in Students, unit_id \in UnitIds :
      \E lesson_id \in LessonTargets(unit_id) :
        \E block_id \in BlockIds(unit_id, lesson_id) \cup {0} :
          /\ Record(Op("put_block_completed", student, unit_id, lesson_id,
                     block_id, NoArg),
                  put_block_completed(store, student, unit_id, lesson_id,
                                      block_id, now + 1))
          /\ UNCHANGED <<calls, forced>>

LessonPutActivityCompleted ==
    \E student \in Students, unit_id \in UnitIds :
      \E lesson_id \in LessonTargets(unit_id) :
        /\ Record(Op("put_activity_completed", student, unit_id, lesson_id,
                   NoId, NoArg),
                put_activity_completed(store, student, unit_id, lesson_id,
                                       now + 1))
        /\ forced' = forced \cup {<<student, unit_id, lesson_id>>}
        /\ UNCHANGED calls

NextLesson ==
    \/ LessonPutBlockCompleted
    \/ LessonPutActivityCompleted

SpecLesson == Init /\ [][NextLesson]_vars

\* the record an operation loads: the persisted one, or a new one
Loaded(ds, student) ==
    IF student \in DOMAIN ds
    THEN ds[student]
    ELSE StudentPropertyEntity_create(student)

\* ------------------------------------------------ sequences of events
\* The record events of one student, one after the other, with the sequence
\* of the calls kept in reqs.
OrderStudent == "alice"

OrderCalls ==
    {Op("put_block_completed", OrderStudent, u, l, b, NoArg) :
        u \in {"1"}, l \in {"1"}, b \in {0, 2}}
    \cup {Op("put_block_completed", OrderStudent, "2", "1", 0, NoArg)}
    \cup {Op("put_activity_completed", OrderStudent, "1", l, NoId, NoArg) :
             l \in {"1", "3"}}
    \cup {Op("put_video_completed", OrderStudent, "1", "2", NoId, NoArg)}
    \cup {Op("put_assessment_completed", OrderStudent, NoArg, NoArg, NoId,
              a) : a \in AssessmentIds}

\* the call an entry of OrderCalls stands for
Call(ds, op, t) ==
    CASE op.op = "put_block_completed" ->
             put_block_completed(ds, op.student, op.unit_id, op.lesson_id,
                                 op.block_id, t)
      [] op.op = "put_activity_completed" ->
             put_activity_completed(ds, op.student, op.unit_id,
                                    op.lesson_id, t)
      [] op.op = "put_video_completed" ->
             put_video_completed(ds, op.student, op.unit_id, op.lesson_id, t)
      [] op.op = "put_assessment_completed" ->
             put_assessment_completed(ds, op.student, op.assessment, t)

\* the datastore after the calls of a sequence, made from time t on
RECURSIVE RunCalls(_, _, _)
RunCalls(ds, ops, t) ==
    IF ops = << >>
    THEN ds
    ELSE RunCalls(Call(ds, Head(ops), t + 1).ds, Tail(ops), t + 1)

OrderCall ==
    \E op \in OrderCalls :
        LET r == Call(store, op, now + 1)
        IN  /\ Len(reqs) < MaxReqs
            /\ reqs' = Append(reqs, [op |-> op, pc |-> "done",
                                     loaded |-> Loaded(store, op.student),
                                     progress |-> r.ds[op.student]])
            /\ now' = now + 1
            /\ store' = r.ds
            /\ puts' = r.puts
            /\ written' = r.log
            /\ raised' = r.raised
            /\ pre' = store
            /\ repeat' = (last = op)
            /\ last' = op
            /\ phase' = "call"
            /\ forced' = IF op.op = "put_activity_completed"
                         THEN forced \cup {<<op.student, op.unit_id,
                                              op.lesson_id>>}
                         ELSE forced
            /\ calls' = IF op.op = "put_assessment_completed"
                        THEN [calls EXCEPT ![op.student][op.assessment]
                                               = @ + 1]
                        ELSE calls
            /\ UNCHANGED <<ret, serial, raced, committed>>

NextOrder == OrderCall

SpecOrder == Init /\ [][NextOrder]_vars

\* ------------------------------------------------- vocabulary of the claims
QueryOps == {"get_unit_progress", "get_lesson_progress", "is_video_completed",
             "is_block_completed", "is_assessment_completed"}

\* the keys present in a student's persisted record
Keys(ds, student) ==
    IF student \in DOMAIN ds
    THEN DOMAIN loads_or_empty(ds[student].value)
    ELSE {}

\* the stored value of a key; an absent key (or record) reads as 0
Stored(ds, student, key) ==
    IF key \in Keys(ds, student)
    THEN loads(ds[student].value[1])[key]
    ELSE 0

IsComposite(key) == key[Len(key) - 1] \in {"u", "l", "a"}
IsLeaf(key) == key[Len(key) - 1] \in {"v", "b", "s"}

UnitOf(ds, student, unit_id) == Stored(ds, student, _get_unit_key(unit_id))
LessonOf(ds, student, unit_id, lesson_id) ==
    Stored(ds, student, _get_lesson_key(unit_id, lesson_id))
ActivityOf(ds, student, unit_id, lesson_id) ==
    Stored(ds, student, _get_activity_key(unit_id, lesson_id, 0))
BlockOf(ds, student, unit_id, lesson_id, block_id) ==
    Stored(ds, student, _get_block_key(unit_id, lesson_id, 0, block_id))

\* the key a record operation targets directly
TargetKey(op) ==
    CASE op.op = "put_video_completed" ->
             _get_video_key(op.unit_id, op.lesson_id, 0)
      [] op.op = "put_block_completed" ->
             _get_block_key(op.unit_id, op.lesson_id, 0, op.block_id)
      [] op.op = "put_assessment_completed" ->
             _get_assessment_key(op.assessment)
      [] OTHER -> _get_activity_key(op.unit_id, op.lesson_id, 0)

AllKeys(student) == Keys(store, student) \cup Keys(pre, student)

\* the last operation ran the cascade up to the unit of its lesson
CascadedToUnit ==
    \/ last.op \in {"put_block_completed", "put_activity_completed"}
    \/ /\ last.op = "put_activity_accessed"
       /\ InteractiveBlockIds(last.unit_id, last.lesson_id) = {}

OtherLessonsCompleted(ds, student, unit_id, lesson_id) ==
    \A l \in ActivityLessonIds(unit_id) \ {lesson_id} :
        LessonOf(ds, student, unit_id, l) = COMPLETED_STATE

AllLessonsCompleted(ds, student, unit_id) ==
    \A l \in ActivityLessonIds(unit_id) :
        LessonOf(ds, student, unit_id, l) = COMPLETED_STATE

AllBlocksCompleted(ds, student, unit_id, lesson_id) ==
    \A b \in InteractiveBlockIds(unit_id, lesson_id) :
        BlockOf(ds, student, unit_id, lesson_id, b) > 0

\* ------------------------------------------------------------------ claims

\* C1: monotonicity.  No operation lowers the stored state of a unit, lesson
\* or activity: the value read after an operation is at least the value read
\* before it (hence, by transitivity, at least the value read after any
\* earlier event); a COMPLETED composite stays COMPLETED.
C1_Monotonicity ==
    \A s \in Students : \A k \in AllKeys(s) :
        IsComposite(k) => Stored(store, s, k) >= Stored(pre, s, k)

\* a block event arrives for an activity that was already COMPLETED
C1_Witness ==
    /\ last.op = "put_block_completed"
    /\ ActivityOf(pre, last.student, last.unit_id, last.lesson_id)
           = COMPLETED_STATE
    /\ ~AllBlocksCompleted(store, last.student, last.unit_id, last.lesson_id)
    /\ ActivityOf(store, last.student, last.unit_id, last.lesson_id)
           = COMPLETED_STATE

\* C2: idempotence.  When a record operation is executed twice in a row with
\* the same arguments, the second execution changes no key of the record
\* except the targeted leaf counter, which is one higher; every unit, lesson
\* and activity state is what it was after the first execution.
C2_Idempotence ==
    (repeat /\ last.op \in RecordOps) =>
        /\ Keys(store, last.student) = Keys(pre, last.student)
        /\ \A k \in Keys(store, last.student) :
              IF k = TargetKey(last) /\ IsLeaf(k)
              THEN Stored(store, last.student, k)
                       = Stored(pre, last.student, k) + 1
              ELSE Stored(store, last.student, k)
                       = Stored(pre, last.student, k)

\* the same block event twice in a row, the activity not yet COMPLETED
C2_Witness ==
    /\ repeat
    /\ last.op = "put_block_completed"
    /\ Stored(store, last.student, TargetKey(last)) = 2
    /\ ActivityOf(store, last.student, last.unit_id, last.lesson_id)
           = IN_PROGRESS_STATE

\* C3: cascade completeness.  After a put_block_completed call that leaves
\* every interactive block of the activity with a positive counter, the
\* activity and its lesson are COMPLETED, and if every other activity-bearing
\* lesson of the unit was already COMPLETED the unit is COMPLETED too.
C3_CascadeCompleteness ==
    (/\ last.op = "put_block_completed"
     /\ AllBlocksCompleted(store, last.student, last.unit_id, last.lesson_id))
    =>
        /\ ActivityOf(store, last.student, last.unit_id, last.lesson_id)
               = COMPLETED_STATE
        /\ LessonOf(store, last.student, last.unit_id, last.lesson_id)
               = COMPLETED_STATE
        /\ OtherLessonsCompleted(pre, last.student, last.unit_id,
                                 last.lesson_id)
               => UnitOf(store, last.student, last.unit_id) = COMPLETED_STATE

\* the call that completes the last open interactive block of a two-block
\* activity also completes the unit
C3_Witness ==
    /\ last.op = "put_block_completed"
    /\ Cardinality(InteractiveBlockIds(last.unit_id, last.lesson_id)) > 1
    /\ ActivityLessonIds(last.unit_id) # {last.lesson_id}
    /\ ~AllBlocksCompleted(pre, last.student, last.unit_id, last.lesson_id)
    /\ AllBlocksCompleted(store, last.student, last.unit_id, last.lesson_id)
    /\ UnitOf(pre, last.student, last.unit_id) = IN_PROGRESS_STATE
    /\ UnitOf(store, last.student, last.unit_id) = COMPLETED_STATE

C5_AutoComplete ==
    (/\ last.op = "put_activity_accessed"
     /\ InteractiveBlockIds(last.unit_id, last.lesson_id) = {})
    =>
        /\ ActivityOf(store, last.student, last.unit_id, last.lesson_id)
               = COMPLETED_STATE
        /\ LessonOf(store, last.student, last.unit_id, last.lesson_id)
               = COMPLETED_STATE
        /\ UnitOf(store, last.student, last.unit_id)
               = IF AllLessonsCompleted(store, last.student, last.unit_id)
                 THEN COMPLETED_STATE
                 ELSE IN_PROGRESS_STATE

\* the access completes an activity that was not started and leaves the unit
\* IN_PROGRESS because a sibling lesson is open
C5_Witness ==
    /\ last.op = "put_activity_accessed"
    /\ InteractiveBlockIds(last.unit_id, last.lesson_id) = {}
    /\ ActivityOf(pre, last.student, last.unit_id, last.lesson_id)
           = NOT_STARTED_STATE
    /\ ActivityOf(store, last.student, last.unit_id, last.lesson_id)
           = COMPLETED_STATE
    /\ UnitOf(store, last.student, last.unit_id) = IN_PROGRESS_STATE

\* C6: vacuous completion.  After an operation whose cascade recomputes a
\* unit, the unit is COMPLETED as soon as every activity-bearing lesson of
\* the unit is COMPLETED, whatever is stored for the lessons without an
\* activity; and a unit is IN_PROGRESS only while some activity-bearing
\* lesson is not COMPLETED.
C6_VacuousCompletion ==
    /\ (/\ CascadedToUnit
        /\ AllLessonsCompleted(store, last.student, last.unit_id))
           => UnitOf(store, last.student, last.unit_id) = COMPLETED_STATE
    /\ \A s \in Students : \A u \in UnitIds :
           UnitOf(store, s, u) = IN_PROGRESS_STATE
               => ~AllLessonsCompleted(store, s, u)

\* a unit is completed by a cascade while one of its lessons has no activity
\* and nothing stored
C6_Witness ==
    /\ CascadedToUnit
    /\ UnitOf(pre, last.student, last.unit_id) # COMPLETED_STATE
    /\ UnitOf(store, last.student, last.unit_id) = COMPLETED_STATE
    /\ \E l \in LessonIds(last.unit_id) \ ActivityLessonIds(last.unit_id) :
           _get_lesson_key(last.unit_id, l) \notin Keys(store, last.student)

C8_AssessmentCounting ==
    \A s \in Students : \A a \in AssessmentIds :
        /\ calls[s][a] >= 1 =>
              /\ s \in DOMAIN store
              /\ _get_entity_value(store[s], _get_assessment_key(a))
                     = calls[s][a]
        /\ s \in DOMAIN store =>
              is_assessment_completed(store[s], a) = (calls[s][a] >= 1)
        /\ (/\ last.op = "is_assessment_completed"
            /\ last.student = s
            /\ last.assessment = a)
               => ret = <<calls[s][a] >= 1>>

\* the query answers true after the second call, the counter reading 2
C8_Witness ==
    /\ last.op = "is_assessment_completed"
    /\ calls[last.student][last.assessment] = 2
    /\ Stored(store, last.student, _get_assessment_key(last.assessment)) = 2
    /\ ret = <<TRUE>>

\* C9: leaf counters.  Every stored video, block and assessment counter is a
\* non-negative integer; no operation lowers one; and put_video_completed,
\* put_block_completed and put_assessment_completed raise the targeted
\* counter by exactly 1 (absent counting as 0) and change no other counter.
C9_LeafCounters ==
    \A s \in Students : \A k \in AllKeys(s) :
        IsLeaf(k) =>
            /\ Stored(store, s, k) \in Nat
            /\ Stored(store, s, k) >= Stored(pre, s, k)
            /\ Stored(store, s, k) =
                  IF /\ last.op \in {"put_video_completed",
                                     "put_block_completed",
                                     "put_assessment_completed"}
                     /\ last.student = s
                     /\ k = TargetKey(last)
                  THEN Stored(pre, s, k) + 1
                  ELSE Stored(pre, s, k)

\* a video counter goes from absent to 1 while a block counter stays put
C9_Witness ==
    /\ last.op = "put_video_completed"
    /\ TargetKey(last) \notin Keys(pre, last.student)
    /\ Stored(store, last.student, TargetKey(last)) = 1
    /\ \E k \in Keys(pre, last.student) :
          k[Len(k) - 1] = "b" /\ Stored(store, last.student, k) > 0

\* C10 as stated: no query changes the datastore or issues a put(), also
\* for a student without a record.
C10_Original ==
    last.op \in QueryOps => (store = pre /\ puts = 0)

\* C10 (amended): is_video_completed, is_block_completed and
\* is_assessment_completed never change the datastore; get_unit_progress and
\* get_lesson_progress leave it unchanged, with no put(), for a student who
\* has a record, and for a student without one they persist a new record
\* with no value through exactly one put() and change nothing else.
C10_QueriesReadOnly ==
    last.op \in QueryOps =>
        IF last.student \in DOMAIN pre
        THEN store = pre /\ puts = 0
        ELSE /\ last.op \in {"get_unit_progress", "get_lesson_progress"}
             /\ puts = 1
             /\ DOMAIN store = DOMAIN pre \cup {last.student}
             /\ store[last.student].value = <<>>
             /\ \A s \in DOMAIN pre : store[s] = pre[s]

\* a lesson query on a record that already holds progress
C10_Witness ==
    /\ last.op = "get_lesson_progress"
    /\ last.student \in DOMAIN pre
    /\ Keys(pre, last.student) # {}
    /\ \E l \in DOMAIN ret[1] : ret[1][l] = COMPLETED_STATE

\* the entity name a record operation hands to _put_event
EntityOf(op) ==
    CASE op.op = "put_video_completed" -> "video"
      [] op.op = "put_block_completed" -> "block"
      [] op.op = "put_assessment_completed" -> "assessment"
      [] OTHER -> "activity"

\* the last operation reached _update_event (it is not a no-op)
RanCascade ==
    \/ last.op \in RecordOps
    \/ /\ last.op = "put_activity_accessed"
       /\ InteractiveBlockIds(last.unit_id, last.lesson_id) = {}

\* the calls of _update_event made by the last operation
LastSteps == update_steps(EntityOf(last), TargetKey(last), TRUE)

\* C11 as stated: every record operation that is not a no-op issues exactly
\* one put(), the one that follows the cascade, also for a student who had
\* no record.
C11_Original ==
    RanCascade =>
        /\ puts = 1
        /\ written = <<store[last.student]>>

\* C11 (amended): a record operation that is not a no-op ends with one put()
\* of the student's record, issued after the direct update and every derived
\* update and stamped with the current time; it is the only put() when the
\* student already had a record, and for a student without a record it is
\* preceded by the put() of the new, empty record (two writes in all).
C11_CommitAfterCascade ==
    RanCascade =>
        /\ ~raised
        /\ puts = Len(written)
        /\ puts = IF last.student \in DOMAIN pre THEN 1 ELSE 2
        /\ last.student \notin DOMAIN pre =>
              /\ written[1].value = << >>
              /\ written[1].updated_on = 0
        /\ written[puts] = store[last.student]
        /\ written[puts].updated_on = now
        /\ \A i \in 1..Len(LastSteps) :
              LastSteps[i].event_key
                  \in DOMAIN loads_or_empty(written[puts].value)

\* a block event on an existing record writes once, and the write carries
\* the unit state the cascade has just created
C11_Witness ==
    /\ last.op = "put_block_completed"
    /\ last.student \in DOMAIN pre
    /\ puts = 1
    /\ _get_unit_key(last.unit_id) \notin Keys(pre, last.student)
    /\ _get_unit_key(last.unit_id)
           \in DOMAIN loads_or_empty(written[1].value)

\* C12: query projections.  get_lesson_progress returns a mapping whose
\* domain is the lesson ids of the unit, each mapped to the stored state of
\* the lesson or 0 when nothing is stored; get_unit_progress maps every
\* regular unit to its stored state or 0 and every assessment unit to
\* (counter > 0).
C12_QueryProjections ==
    /\ last.op = "get_lesson_progress" =>
          /\ DOMAIN ret[1]
                 = {l.id : l \in SeqToSet(get_lessons(last.unit_id))}
          /\ \A id \in DOMAIN ret[1] :
                ret[1][id] = LessonOf(store, last.student, last.unit_id,
                                      str(id))
          /\ Keys(store, last.student) = {} =>
                \A id \in DOMAIN ret[1] : ret[1][id] = 0
    /\ last.op = "get_unit_progress" =>
          /\ DOMAIN ret[1] = UnitIds \cup AssessmentIds
          /\ \A u \in UnitIds :
                ret[1][u] = UnitOf(store, last.student, u)
          /\ \A a \in AssessmentIds :
                ret[1][a] = (Stored(store, last.student,
                                    _get_assessment_key(a)) > 0)

\* the lesson query of a student without a record maps every lesson to 0
C12_Witness ==
    /\ last.op = "get_lesson_progress"
    /\ last.student \notin DOMAIN pre
    /\ Cardinality(DOMAIN ret[1]) > 1
    /\ \A id \in DOMAIN ret[1] : ret[1][id] = 0

\* C15: unknown event entities.  _put_event with an entity name outside
\* EVENT_CODE_MAPPING raises nothing, creates no record, changes no key and
\* no updated_on of an existing record and issues no put().
C15_UnknownEntityNoOp ==
    last.op = "_put_event" =>
        /\ last.assessment \notin DOMAIN EVENT_CODE_MAPPING
        /\ ~raised
        /\ store = pre
        /\ puts = 0
        /\ written = << >>

\* the unknown event arrives later than the last write of an existing record
C15_Witness ==
    /\ last.op = "_put_event"
    /\ last.student \in DOMAIN store
    /\ Keys(store, last.student) # {}
    /\ store[last.student].updated_on < now

\* the number of segments of a key of each composite kind (2 x depth)
SegmentCount(event_entity) ==
    CASE event_entity = "unit" -> 2
      [] event_entity = "lesson" -> 4
      [] event_entity = "activity" -> 6

\* C16: key depth.  No record operation fails a segment-count assertion:
\* every key its cascade hands to _update_activity, _update_lesson or
\* _update_unit has 6, 4 or 2 segments respectively, and every key stored in
\* a record has 2, 4, 6 or 8 segments.
C16_KeyDepth ==
    /\ ~raised
    /\ RanCascade =>
          \A i \in 1..Len(LastSteps) :
              dispatches(LastSteps[i]) =>
                  Len(LastSteps[i].event_key)
                      = SegmentCount(LastSteps[i].event_entity)
    /\ \A s \in Students : \A k \in Keys(store, s) : Len(k) \in {2, 4, 6, 8}

\* a block event hands a key to each of the three updaters and stores a key
\* of every depth
C16_Witness ==
    /\ last.op = "put_block_completed"
    /\ Len(LastSteps) = 4
    /\ \A i \in 2..4 : dispatches(LastSteps[i])
    /\ {Len(k) : k \in Keys(store, last.student)} = {2, 4, 6, 8}

\* the value the class comment gives a composite of which `done` out of
\* `total` sub-entities have been completed
CommentValue(done, total) ==
    IF done = 0 THEN 0 ELSE IF done < total THEN 1 ELSE 2

CompletedBlocks(ds, student, unit_id, lesson_id) ==
    {b \in InteractiveBlockIds(unit_id, lesson_id) :
        BlockOf(ds, student, unit_id, lesson_id, b) > 0}

CompletedLessons(ds, student, unit_id) ==
    {l \in ActivityLessonIds(unit_id) :
        LessonOf(ds, student, unit_id, l) = COMPLETED_STATE}

\* C17 as stated: the value of a unit, lesson or activity is 0 iff none of
\* its sub-entities has been completed, 1 iff some but not all have, and 2
\* iff all have (sub-entities: the interactive blocks of an activity, the
\* activity of a lesson, the activity-bearing lessons of a unit).
C17_ValueSemantics ==
    \A s \in Students : \A u \in UnitIds :
        /\ UnitOf(store, s, u)
               = CommentValue(Cardinality(CompletedLessons(store, s, u)),
                              Cardinality(ActivityLessonIds(u)))
        /\ \A l \in ActivityLessonIds(u) :
              /\ LessonOf(store, s, u, l)
                     = CommentValue(
                           IF ActivityOf(store, s, u, l) = COMPLETED_STATE
                           THEN 1 ELSE 0, 1)
              /\ InteractiveBlockIds(u, l) # {} =>
                    ActivityOf(store, s, u, l)
                        = CommentValue(
                              Cardinality(CompletedBlocks(store, s, u, l)),
                              Cardinality(InteractiveBlockIds(u, l)))

\* C18: videos and assessments do not cascade.  put_video_completed and
\* put_assessment_completed make a single update, of the targeted counter:
\* no other key is added to the record and the value of every other key,
\* composite or leaf, is unchanged.
C18_NoCascade ==
    last.op \in {"put_video_completed", "put_assessment_completed"} =>
        /\ Len(LastSteps) = 1
        /\ Keys(store, last.student)
               = Keys(pre, last.student) \cup {TargetKey(last)}
        /\ \A k \in Keys(store, last.student) :
              Stored(store, last.student, k)
                  = IF k = TargetKey(last)
                    THEN Stored(pre, last.student, k) + 1
                    ELSE Stored(pre, last.student, k)

\* a video is completed in a lesson that has an activity, and neither the
\* lesson nor the unit leaves NOT_STARTED
C18_Witness ==
    /\ last.op = "put_video_completed"
    /\ last.lesson_id \in ActivityLessonIds(last.unit_id)
    /\ Stored(store, last.student, TargetKey(last)) = 1
    /\ _get_lesson_key(last.unit_id, last.lesson_id)
           \notin Keys(store, last.student)
    /\ _get_unit_key(last.unit_id) \notin Keys(store, last.student)

\* C19: put_activity_accessed on an activity with an interactive block is a
\* no-op: the datastore is what it was (no key changed, no record created)
\* and no put() is issued.
C19_AccessedInteractiveNoOp ==
    (/\ last.op = "put_activity_accessed"
     /\ InteractiveBlockIds(last.unit_id, last.lesson_id) # {})
    =>
        /\ store = pre
        /\ puts = 0
        /\ written = << >>
        /\ ~raised

\* the access is made by a student who has no record, and none is created
C19_Witness ==
    /\ last.op = "put_activity_accessed"
    /\ InteractiveBlockIds(last.unit_id, last.lesson_id) # {}
    /\ last.student \notin DOMAIN store
    /\ now > 0

ValueIn(progress, key) ==
    LET d == loads_or_empty(progress.value)
    IN  IF key \in DOMAIN d THEN d[key] ELSE 0

\* the requests of a student that have committed
Done(student) ==
    {i \in 1..Len(reqs) :
        /\ reqs[i].pc = "done"
        /\ reqs[i].op.student = student
        /\ reqs[i].op.op # "get_lesson_progress"}

\* C13: last committed write wins.  Once a request of a student has
\* committed, the persisted record of the student is the in-memory record of
\* the request that committed last, computed from the record that request
\* loaded: every leaf counter is the loaded one, plus one for the leaf the
\* request targets, so the increments of requests that committed between its
\* load and its commit are not in the datastore.
C13_LastWriteWins ==
    \A s \in RaceStudents :
        committed[s] # 0 =>
            LET r == reqs[committed[s]]
            IN  /\ r.pc = "done"
                /\ s \in DOMAIN store
                /\ store[s].value = r.progress.value
                /\ \A k \in Keys(store, s) :
                      IsLeaf(k) =>
                          Stored(store, s, k)
                              = ValueIn(r.loaded, k)
                                + (IF k = CallKey(r.op) THEN 1 ELSE 0)

\* two block events of one student loaded the same record; both have
\* committed and the counter of the one that committed first is lost
C13_Witness ==
    \E s \in RaceStudents : \E i, j \in Done(s) :
        /\ committed[s] = j
        /\ i # j
        /\ reqs[i].loaded = reqs[j].loaded
        /\ reqs[i].op.op = "put_block_completed"
        /\ reqs[j].op.op = "put_block_completed"
        /\ CallKey(reqs[i].op) # CallKey(reqs[j].op)
        /\ ValueIn(reqs[i].progress, CallKey(reqs[i].op)) = 1
        /\ CallKey(reqs[i].op) \notin Keys(store, s)
        /\ Stored(store, s, CallKey(reqs[j].op)) = 1

Matched(unit_id, lesson_id) ==
    \E l \in SeqToSet(get_lessons(unit_id)) :
        str(l.id) = lesson_id /\ l.activity

\* C21: lesson recomputation.  After a block or activity event, whose
\* cascade recomputes the lesson: if the lesson was not COMPLETED and no
\* entry of the unit's lesson list has both the lesson id and an activity,
\* the lesson is COMPLETED, whatever the state of the activity; the lesson is
\* IN_PROGRESS only if such an entry exists and the activity is not
\* COMPLETED, and in that case it is IN_PROGRESS unless it was COMPLETED.
C21_LessonRecomputation ==
    last.op \in {"put_block_completed", "put_activity_completed"} =>
        LET s == last.student
            u == last.unit_id
            l == last.lesson_id
        IN  /\ (LessonOf(pre, s, u, l) # COMPLETED_STATE /\ ~Matched(u, l))
                   => LessonOf(store, s, u, l) = COMPLETED_STATE
            /\ LessonOf(store, s, u, l) = IN_PROGRESS_STATE
                   => /\ Matched(u, l)
                      /\ ActivityOf(store, s, u, l) # COMPLETED_STATE
            /\ (/\ Matched(u, l)
                /\ LessonOf(pre, s, u, l) # COMPLETED_STATE
                /\ ActivityOf(store, s, u, l) # COMPLETED_STATE)
                   => LessonOf(store, s, u, l) = IN_PROGRESS_STATE
            /\ LessonOf(store, s, u, l)
                   \in {IN_PROGRESS_STATE, COMPLETED_STATE}

\* a block event for a listed lesson without the activity attribute leaves
\* the activity IN_PROGRESS and the lesson COMPLETED
C21_Witness ==
    /\ last.op = "put_block_completed"
    /\ last.lesson_id \in LessonIds(last.unit_id)
    /\ ~Matched(last.unit_id, last.lesson_id)
    /\ LessonOf(pre, last.student, last.unit_id, last.lesson_id)
           = NOT_STARTED_STATE
    /\ ActivityOf(store, last.student, last.unit_id, last.lesson_id)
           = IN_PROGRESS_STATE
    /\ LessonOf(store, last.student, last.unit_id, last.lesson_id)
           = COMPLETED_STATE

\* the keys of the ancestors of a key, nearest first
Ancestors(key) ==
    [i \in 1..((Len(key) \div 2) - 1) |-> SubSeq(key, 1, Len(key) - 2 * i)]

\* C22: cascade order.  A put_block_completed call makes exactly four
\* updates, of the block (increment), its activity, its lesson and its unit
\* in this order, and a put_activity_completed call exactly three, of the
\* activity (set), its lesson and its unit; only the first is direct, each
\* later one is made once, on the key of the parent of the one before, and
\* the last is the unit's.  The record persisted is the loaded one after
\* these updates applied in that order.
C22_CascadeOrder ==
    last.op \in {"put_block_completed", "put_activity_completed"} =>
        LET s == last.student
            key == TargetKey(last)
            activity_key == _get_activity_key(last.unit_id, last.lesson_id, 0)
            lesson_key == _get_lesson_key(last.unit_id, last.lesson_id)
            unit_key == _get_unit_key(last.unit_id)
            p0 == Loaded(pre, s)
            p1 == IF last.op = "put_block_completed"
                  THEN _update_activity(_inc(p0, key), activity_key)
                  ELSE _set_entity_value(p0, key, COMPLETED_STATE)
            p2 == _update_unit(_update_lesson(p1, lesson_key), unit_key)
        IN  /\ [i \in 1..Len(LastSteps) |-> LastSteps[i].event_entity]
                  = IF last.op = "put_block_completed"
                    THEN <<"block", "activity", "lesson", "unit">>
                    ELSE <<"activity", "lesson", "unit">>
            /\ \A i \in 1..Len(LastSteps) :
                  /\ LastSteps[i].direct_update = (i = 1)
                  /\ LastSteps[i].event_key
                         = (<<key>> \o Ancestors(key))[i]
            /\ LastSteps[Len(LastSteps)].event_key = unit_key
            /\ store[s].value = p2.value

\* one block event on a record without the unit completes the activity, the
\* lesson and the unit, each on the value just stored for its child
C22_Witness ==
    /\ last.op = "put_block_completed"
    /\ Keys(pre, last.student) # {}
    /\ _get_unit_key(last.unit_id) \notin Keys(pre, last.student)
    /\ ActivityOf(store, last.student, last.unit_id, last.lesson_id)
           = COMPLETED_STATE
    /\ LessonOf(store, last.student, last.unit_id, last.lesson_id)
           = COMPLETED_STATE
    /\ UnitOf(store, last.student, last.unit_id) = COMPLETED_STATE

\* the operations that call get_or_create_progress
CallsGetOrCreate ==
    \/ RanCascade
    \/ last.op \in {"get_or_create_progress", "get_unit_progress",
                    "get_lesson_progress"}

\* what get_or_create_progress does, and that no record is ever deleted
GetOrCreateLifecycle ==
    /\ last.op = "get_or_create_progress" =>
          IF last.student \in DOMAIN pre
          THEN /\ store = pre
               /\ puts = 0
               /\ ret = <<pre[last.student]>>
          ELSE /\ last.student \in DOMAIN store
               /\ store[last.student]
                      = StudentPropertyEntity_create(last.student)
               /\ Keys(store, last.student) = {}
               /\ written = <<store[last.student]>>
               /\ ret = <<store[last.student]>>
    /\ DOMAIN pre \subseteq DOMAIN store

\* C23 as stated: no record exists before the first event of the student;
\* get_or_create_progress on a student without a record persists a new,
\* empty record before returning it; a record, once there, stays.
C23_Original ==
    /\ \A s \in DOMAIN store : now > 0
    /\ GetOrCreateLifecycle

\* C23 (amended): a record comes into existence only in an operation for its
\* student that calls get_or_create_progress: a record event that is not a
\* no-op, or a get_or_create_progress, get_unit_progress or
\* get_lesson_progress call, which may precede the first event;
\* get_or_create_progress on a student without a record persists a new record
\* with no value and no key, by one put(), and returns it, and on a student
\* with a record returns that record and writes nothing; a record, once
\* there, is in every later state.
C23_LazyLifecycle ==
    /\ \A s \in DOMAIN store \ DOMAIN pre :
          /\ s = last.student
          /\ CallsGetOrCreate
    /\ ~CallsGetOrCreate => DOMAIN store = DOMAIN pre
    /\ GetOrCreateLifecycle

\* get_or_create_progress creates the record of a student whose only event
\* so far was a no-op
C23_Witness ==
    /\ last.op = "get_or_create_progress"
    /\ now > 0
    /\ last.student \notin DOMAIN pre
    /\ last.student \in DOMAIN store
    /\ puts = 1

\* the entity kind a composite key stands for
KindOf(key) ==
    CASE key[Len(key) - 1] = "u" -> "unit"
      [] key[Len(key) - 1] = "l" -> "lesson"
      [] key[Len(key) - 1] = "a" -> "activity"

\* a record as a complete cascade leaves it: every block, activity and lesson
\* key comes with the keys of all its ancestors, and every unit, lesson and
\* activity key holds IN_PROGRESS or COMPLETED and is what recomputing it
\* would give
CascadeComplete(progress) ==
    LET d == loads_or_empty(progress.value)
    IN  \A k \in DOMAIN d :
            /\ k[Len(k) - 1] \in {"b", "a", "l"} =>
                  \A i \in 1..Len(Ancestors(k)) : Ancestors(k)[i] \in DOMAIN d
            /\ IsComposite(k) =>
                  /\ d[k] \in {IN_PROGRESS_STATE, COMPLETED_STATE}
                  /\ updater(KindOf(k), progress, k) = progress

\* C24: cascade atomicity.  Under sequential execution every persisted
\* record, and every record handed to put(), has no value at all (the new
\* record) or is the record at the end of a complete cascade: no block,
\* activity or lesson key is there without its ancestors, and no unit, lesson
\* or activity is at a value that recomputing it would change; the record a
\* record operation leaves is the loaded one after the whole of
\* _update_event.
C24_CascadeAtomicity ==
    /\ \A s \in DOMAIN store :
          store[s].value = << >> \/ CascadeComplete(store[s])
    /\ \A i \in 1..Len(written) :
          written[i].value = << >> \/ CascadeComplete(written[i])
    /\ RanCascade =>
          /\ written # << >>
          /\ written[Len(written)].value
                 = _update_event(Loaded(pre, last.student), EntityOf(last),
                                 TargetKey(last), TRUE).value

\* a block event finds the activity IN_PROGRESS and the single put() writes
\* it, its lesson and its unit promoted to COMPLETED
C24_Witness ==
    /\ last.op = "put_block_completed"
    /\ puts = 1
    /\ ActivityOf(pre, last.student, last.unit_id, last.lesson_id)
           = IN_PROGRESS_STATE
    /\ UnitOf(pre, last.student, last.unit_id) = IN_PROGRESS_STATE
    /\ ValueIn(written[1],
               _get_activity_key(last.unit_id, last.lesson_id, 0))
           = COMPLETED_STATE
    /\ ValueIn(written[1], _get_unit_key(last.unit_id)) = COMPLETED_STATE

\* the orderings of n calls
Perms(n) ==
    {f \in [1..n -> 1..n] : \A i, j \in 1..n : f[i] = f[j] => i = j}

\* the calls made so far
History == [i \in 1..Len(reqs) |-> reqs[i].op]

\* C25: order independence.  The record events made so far, made in any
\* other order on a datastore without the student's record, leave the record
\* the datastore holds: the same keys with the same counters and the same
\* states of every unit, lesson and activity.
C25_OrderIndependence ==
    \A f \in Perms(Len(reqs)) :
        RunCalls([s \in {} |-> 0], [i \in 1..Len(reqs) |-> History[f[i]]], 0)
            = store

\* three different events, among them the direct completion of an activity
\* and a block of the same activity, and a unit COMPLETED
C25_Witness ==
    /\ Len(reqs) >= 3
    /\ Cardinality({History[i] : i \in 1..3}) = 3
    /\ \E i, j \in 1..3 :
          /\ History[i].op = "put_activity_completed"
          /\ History[j].op = "put_block_completed"
          /\ History[i].unit_id = History[j].unit_id
          /\ History[i].lesson_id = History[j].lesson_id
    /\ \E u \in UnitIds : UnitOf(store, OrderStudent, u) = COMPLETED_STATE

\* C26: a stale commit can revoke a completion.  After a commit, every
\* unit, lesson and activity of the student is stored at the value it has in
\* the committing request's in-memory record, which is at least the value
\* the request loaded; it is lower than the value stored before the commit
\* only for a student with overlapping requests and only where the request
\* loaded a lower value than the one another request has persisted since.
\* The witness shows that this happens, so the persisted states are not
\* monotonic under overlapping requests of one student.
C26_StaleCommit ==
    phase = "commit" =>
        LET s == last.student
            r == reqs[committed[s]]
        IN  \A k \in Keys(pre, s) \cup Keys(store, s) :
                IsComposite(k) =>
                    /\ Stored(store, s, k) = ValueIn(r.progress, k)
                    /\ ValueIn(r.progress, k) >= ValueIn(r.loaded, k)
                    /\ Stored(store, s, k) < Stored(pre, s, k) =>
                          /\ s \in raced
                          /\ ValueIn(r.loaded, k) < Stored(pre, s, k)

\* a request that loaded the activity and its lesson IN_PROGRESS commits
\* after another request has persisted them COMPLETED, and they are back at
\* IN_PROGRESS
C26_Witness ==
    /\ phase = "commit"
    /\ LET s == last.student
           r == reqs[committed[s]]
           a == _get_activity_key(last.unit_id, last.lesson_id, 0)
           l == _get_lesson_key(last.unit_id, last.lesson_id)
       IN  /\ ValueIn(r.loaded, a) = IN_PROGRESS_STATE
           /\ Stored(pre, s, a) = COMPLETED_STATE
           /\ Stored(store, s, a) = IN_PROGRESS_STATE
           /\ Stored(pre, s, l) = COMPLETED_STATE
           /\ Stored(store, s, l) = IN_PROGRESS_STATE

====
